---- MODULE Spec2Model ----
(***************************************************************************)
(* Model of the system-prompt assembly engine (src/core/prompts).          *)
(*                                                                         *)
(* Text is modelled as a sequence of tokens.  Every token is a string: a   *)
(* chunk of fixed prose is one token, a filesystem path is a sequence of   *)
(* one-component / one-separator tokens, so that "\\" and "/" are visible  *)
(* in the assembled document.  A section is a token sequence; the empty    *)
(* string is the empty sequence.                                           *)
(***************************************************************************)
EXTENDS Integers, Sequences, FiniteSets, TLC

(***************************************************************************)
(* Bounds                                                                  *)
(***************************************************************************)
\* number of SYSTEM_PROMPT invocations explored in one behaviour
MaxCalls == 2

(***************************************************************************)
(* Text helpers (JavaScript string / array primitives)                     *)
(***************************************************************************)
\* the separator of sections.join("\n\n")
SEP == "\n\n"

\* String.prototype.toPosix: every backslash becomes a forward slash
toPosix(p) == [i \in 1..Len(p) |-> IF p[i] = "\\" THEN "/" ELSE p[i]]

\* Array.prototype.join(sep) on an array of texts: the texts in order with
\* one sep between neighbours, empty texts included
RECURSIVE join(_, _)
join(arr, sep) ==
    IF Len(arr) = 0 THEN <<>>
    ELSE IF Len(arr) = 1 THEN arr[1]
    ELSE arr[1] \o <<sep>> \o join(Tail(arr), sep)

\* x || fallback on strings: the empty string is falsy
OrElse(text, fallback) == IF text = <<>> THEN fallback ELSE text

\* the mutated splice inserts one slot too early
SpliceOffByOne(arr, start, item) ==
    SubSeq(arr, 1, start - 1) \o <<item>> \o SubSeq(arr, start, Len(arr))

\* Array.prototype.splice(start, 0, item): insert item at 0-based index start
splice(arr, start, item) ==
    SubSeq(arr, 1, start) \o <<item>> \o SubSeq(arr, start + 1, Len(arr))

(***************************************************************************)
(* Inputs                                                                  *)
(***************************************************************************)
\* a call made without a working directory
Undefined == <<"<undefined>">>

PosixCwd == <<"/", "home", "/", "proj">>
Win32Cwd == <<"C:", "\\", "Users", "\\", "proj">>

CwdPool == {Undefined, PosixCwd, Win32Cwd}

BrowserSettingsPool == {[viewport |-> [width |-> "900", height |-> "600"]],
                        [viewport |-> [width |-> "1280", height |-> "800"]]}

\* host conventions of the process: os.homedir(), osName(), getShell()
HostPool == {"posix", "win32"}

homedir(h) == IF h = "win32" THEN <<"C:", "\\", "Users">> ELSE <<"/", "home">>
osName(h) == IF h = "win32" THEN "Windows 11" ELSE "Linux"
getShell(h) == IF h = "win32" THEN "cmd.exe" ELSE "/bin/bash"

(***************************************************************************)
(* Section providers with fixed prose                                      *)
(***************************************************************************)
getBasePrompt == <<"You are Cline">>
getToolUsePrompt == <<"TOOL USE">>
getExecuteCommandPrompt(cwd) == <<"## execute_command", "cwd: ">> \o toPosix(cwd)
getListCodeDefinitionNamesPrompt(cwd) == <<"## list_code_definition_names", "cwd: ">> \o toPosix(cwd)
getListFilesPrompt(cwd) == <<"## list_files", "cwd: ">> \o toPosix(cwd)
getReadFilePrompt(cwd) == <<"## read_file", "cwd: ">> \o toPosix(cwd)
getReplaceInFilePrompt(cwd) == <<"## replace_in_file", "cwd: ">> \o toPosix(cwd)
getSearchFilesPrompt(cwd) == <<"## search_files", "cwd: ">> \o toPosix(cwd)
getWriteToFilePrompt(cwd) == <<"## write_to_file", "cwd: ">> \o toPosix(cwd)
getAskFollowupQuestionPrompt == <<"## ask_followup_question">>
getAttemptCompletionPrompt == <<"## attempt_completion">>
getPlanModeResponsePrompt == <<"## plan_mode_response">>
getUseMcpToolPrompt == <<"## use_mcp_tool">>
getAccessMcpResourcePrompt == <<"## access_mcp_resource">>
getModesPrompt == <<"ACT MODE V.S. PLAN MODE">>
\* also passed the flag and the registry; its text is not stated to use them
getCapabilitiesPrompt(cwd, supportsComputerUse) == <<"CAPABILITIES", "cwd: ">> \o toPosix(cwd)
getEditingPrompt == <<"EDITING FILES">>
getObjectivePrompt == <<"OBJECTIVE">>

getBrowserActionPrompt(browserSettings) ==
    <<"## browser_action", "resolution ",
      browserSettings.viewport.width, "x", browserSettings.viewport.height,
      "Parameters", "coordinates within ",
      browserSettings.viewport.width, "x", browserSettings.viewport.height,
      "Usage">>

getSystemInfoPrompt(cwd, h) ==
    <<"SYSTEM INFORMATION", "Operating System: ", osName(h),
      "Default Shell: ", getShell(h), "Home Directory: ">> \o toPosix(homedir(h))
    \o <<"Current Working Directory: ">> \o toPosix(cwd)

getRulesPrompt(cwd, supportsComputerUse) ==
    <<"RULES", "cwd is: ">> \o toPosix(cwd)
    \o <<"stuck operating from ">> \o toPosix(cwd)
    \o <<"outside of cwd ">> \o toPosix(cwd)
    \o <<"stuck operating from ">> \o toPosix(cwd)
    \o <<"NOT engage in a back and forth conversation.">>
    \o (IF supportsComputerUse
          THEN <<"generic non-development tasks: use the browser_action tool">>
          ELSE <<>>)
    \o <<"NEVER end attempt_completion result with a question",
         "wait for the user's response after each tool use.">>
    \o (IF supportsComputerUse
          THEN <<" For example, use browser_action to launch the site">>
          ELSE <<>>)

(***************************************************************************)
(* The registry (McpHub) as seen through getMode / getServers / the two    *)
(* path lookups                                                            *)
(***************************************************************************)
ModePool == {"off", "enabled"}
StatusPool == {"connected", "connecting", "failed"}

\* JSON.parse of the server.config strings the registry hands out
JSONparse(str) ==
    CASE str = "{command:node,args:[a.js,--fast]}" ->
            [command |-> "node", hasArgs |-> TRUE, args |-> <<"a.js", "--fast">>]
      [] str = "{command:python}" ->
            [command |-> "python", hasArgs |-> FALSE, args |-> <<>>]
      [] OTHER ->
            [command |-> "undefined", hasArgs |-> FALSE, args |-> <<>>]

\* the providers a registry may hold, in registry order; tools is optional
Catalog ==
    << [name |-> "alpha",
        config |-> "{command:node,args:[a.js,--fast]}",
        hasTools |-> TRUE,
        tools |-> << [name |-> "fetch", description |-> "retrieves a URL"],
                     [name |-> "post", description |-> "sends a form"] >>],
       [name |-> "beta",
        config |-> "{command:python}",
        hasTools |-> FALSE,
        tools |-> <<>>] >>

\* a registry content: a prefix of the catalog with a status per entry
ServersPool ==
    UNION { { [i \in 1..n |-> [name |-> Catalog[i].name,
                               config |-> Catalog[i].config,
                               hasTools |-> Catalog[i].hasTools,
                               tools |-> Catalog[i].tools,
                               status |-> st[i]]] :
              st \in [1..n -> StatusPool] } : n \in 0..Len(Catalog) }

\* mcpHub.getMcpServersPath() and getMcpSettingsFilePath() on each host
McpServersPathOf(h) ==
    IF h = "win32" THEN <<"C:", "\\", "Users", "\\", "Documents", "\\", "Cline", "\\", "MCP">>
    ELSE <<"/", "home", "/", "Documents", "/", "Cline", "/", "MCP">>
McpSettingsFilePathOf(h) ==
    IF h = "win32" THEN <<"C:", "\\", "Users", "\\", "settings", "\\", "cline_mcp_settings.json">>
    ELSE <<"/", "home", "/", "settings", "/", "cline_mcp_settings.json">>

\* the mutated filter keeps every entry that has not failed
FilterNotFailed(srvs) == SelectSeq(srvs, LAMBDA server : server.status # "failed")

\* .filter((server) => server.status === "connected")
FilterConnected(srvs) == SelectSeq(srvs, LAMBDA server : server.status = "connected")

ToolLine(tool) == <<"- ", tool.name, ": ", tool.description>>

ServerBlock(server) ==
    LET config == JSONparse(server.config)
        tools == IF server.hasTools
                   THEN OrElse(join([i \in 1..Len(server.tools) |-> ToolLine(server.tools[i])], "\n"),
                               <<>>)
                   ELSE <<>>
        args == IF config.hasArgs
                   THEN OrElse(join([i \in 1..Len(config.args) |-> <<config.args[i]>>], " "), <<>>)
                   ELSE <<>>
    IN  <<"## ", server.name, " <", config.command, " ">> \o args
        \o <<">\n\n### Available Tools\n">> \o tools

NoServersConnected == "(No MCP servers currently connected)"
NoneRunning == "(None running currently)"

getMcpServersPrompt(mcpMode, srvs) ==
    IF mcpMode = "off" THEN <<>>
    ELSE LET connected == FilterConnected(srvs)
             connectedServers ==
                 OrElse(join([i \in 1..Len(connected) |-> ServerBlock(connected[i])], "\n\n"),
                        <<NoServersConnected>>)
         IN  <<"MCP SERVERS", "# Connected MCP Servers">> \o connectedServers
             \o <<"- MCP operations should be used one at a time">>

\* the text built after both lookups of getMcpCreationPrompt have resolved
McpCreationText(mcpServersPath, mcpSettingsFilePath, srvs) ==
    LET connected == FilterConnected(srvs)
        connectedServers ==
            OrElse(join([i \in 1..Len(connected) |-> <<connected[i].name>>], ", "),
                   <<NoneRunning>>)
    IN  <<"## Creating an MCP Server", "should be created in: ">> \o mcpServersPath
        \o <<"cd ">> \o mcpServersPath
        \o <<"Add to the MCP settings file at ">> \o mcpSettingsFilePath
        \o <<"args: ">> \o mcpServersPath \o <<"/", "weather-server/build/index.js">>
        \o <<"## Editing MCP Servers", "e.g., ">> \o connectedServers
        \o <<"This is possible if you can locate the repository",
             "# MCP Servers Are Not Always Necessary">>

(***************************************************************************)
(* State                                                                   *)
(***************************************************************************)
VARIABLES
    host,                \* host conventions of the process
    mcpMode,             \* mcpHub.getMode()
    servers,             \* mcpHub.getServers(): the registry's live content
    pc,                  \* position of the SYSTEM_PROMPT invocation
    args,                \* its arguments cwd, supportsComputerUse, browserSettings
    sections,            \* the elements of the sections array evaluated so far
    mcpServersPath,      \* local of getMcpCreationPrompt
    doc,                 \* the value SYSTEM_PROMPT resolved with
    trace,               \* providers invoked and registry operations, in order
    last,                \* arguments and result of the previous invocation
    calls                \* invocations recorded so far

vars == <<host, mcpMode, servers, pc, args, sections, mcpServersPath, doc,
          trace, last, calls>>

ArgsPool ==
    [cwd : CwdPool, supportsComputerUse : BOOLEAN, browserSettings : BrowserSettingsPool]

NoCall == [valid |-> FALSE, args |-> [cwd |-> Undefined, supportsComputerUse |-> FALSE,
                                      browserSettings |-> CHOOSE b \in BrowserSettingsPool : TRUE],
           sections |-> <<>>, doc |-> <<>>]

Suspended == {"awaitCapabilities", "awaitServersPath", "awaitSettingsPath"}
Settled == {"returned", "threw"}

Init ==
    /\ host \in HostPool
    /\ mcpMode \in ModePool
    /\ servers \in ServersPool
    /\ pc = "idle"
    /\ args = NoCall.args
    /\ sections = <<>>
    /\ mcpServersPath = <<>>
    /\ doc = <<>>
    /\ trace = <<>>
    /\ last = NoCall
    /\ calls = 0

(***************************************************************************)
(* SYSTEM_PROMPT                                                           *)
(***************************************************************************)
\* elements 0..14 of the array literal
HeadSections(cwd) ==
    << getBasePrompt, getToolUsePrompt, getExecuteCommandPrompt(cwd),
       getListCodeDefinitionNamesPrompt(cwd), getListFilesPrompt(cwd),
       getReadFilePrompt(cwd), getReplaceInFilePrompt(cwd),
       getSearchFilesPrompt(cwd), getWriteToFilePrompt(cwd),
       getAskFollowupQuestionPrompt, getAttemptCompletionPrompt,
       getPlanModeResponsePrompt, getUseMcpToolPrompt,
       getAccessMcpResourcePrompt, getModesPrompt >>

HeadTrace ==
    << "getBasePrompt", "getToolUsePrompt", "getExecuteCommandPrompt",
       "getListCodeDefinitionNamesPrompt", "getListFilesPrompt",
       "getReadFilePrompt", "getReplaceInFilePrompt", "getSearchFilesPrompt",
       "getWriteToFilePrompt", "getAskFollowupQuestionPrompt",
       "getAttemptCompletionPrompt", "getPlanModeResponsePrompt",
       "getUseMcpToolPrompt", "getAccessMcpResourcePrompt", "getModesPrompt",
       "getCapabilitiesPrompt" >>

\* the mutated invocation keeps the array in module scope and never clears it
SYSTEM_PROMPT_stale(a) ==
    /\ pc \in {"idle"} \cup Settled
    /\ args' = a
    /\ mcpServersPath' = <<>>
    /\ doc' = <<>>
    /\ IF a.cwd = Undefined
         THEN /\ pc' = "threw"
              /\ sections' = <<>>
              /\ trace' = SubSeq(HeadTrace, 1, 3)
         ELSE /\ pc' = "awaitCapabilities"
              /\ sections' = sections \o HeadSections(a.cwd)
              /\ trace' = HeadTrace
    /\ UNCHANGED <<host, mcpMode, servers>>

\* SYSTEM_PROMPT up to its first await: elements 0..14 are rendered in order
\* and getCapabilitiesPrompt is called.  Without a cwd the third provider
\* throws on cwd.toPosix().
SYSTEM_PROMPT(a) ==
    /\ pc \in {"idle"} \cup Settled
    /\ args' = a
    /\ mcpServersPath' = <<>>
    /\ doc' = <<>>
    /\ IF a.cwd = Undefined
         THEN /\ pc' = "threw"
              /\ sections' = <<>>
              /\ trace' = SubSeq(HeadTrace, 1, 3)
         ELSE /\ pc' = "awaitCapabilities"
              /\ sections' = HeadSections(a.cwd)
              /\ trace' = HeadTrace
    /\ UNCHANGED <<host, mcpMode, servers>>

\* an invocation; nothing of it is kept by the caller
Call ==
    /\ \E a \in ArgsPool : SYSTEM_PROMPT(a)
    /\ UNCHANGED <<last, calls>>

\* an invocation whose predecessor's arguments and result are remembered
CallAgain ==
    /\ calls < MaxCalls
    /\ \E a \in ArgsPool : SYSTEM_PROMPT(a)
    /\ calls' = calls + 1
    /\ last' = IF pc = "returned"
                 THEN [valid |-> TRUE, args |-> args, sections |-> sections, doc |-> doc]
                 ELSE last

\* elements 15..20, then getMcpCreationPrompt up to its first await
ResumeCapabilities ==
    /\ pc = "awaitCapabilities"
    /\ sections' = sections \o
          << getCapabilitiesPrompt(args.cwd, args.supportsComputerUse),
             getEditingPrompt,
             getMcpServersPrompt(mcpMode, servers),
             getSystemInfoPrompt(args.cwd, host),
             getObjectivePrompt,
             getRulesPrompt(args.cwd, args.supportsComputerUse) >>
    /\ trace' = trace \o <<"getEditingPrompt", "getMcpServersPrompt", "mcpHub.getMode">>
                      \o (IF mcpMode = "off" THEN <<>> ELSE <<"mcpHub.getServers">>)
                      \o <<"getSystemInfoPrompt", "getObjectivePrompt", "getRulesPrompt",
                           "getMcpCreationPrompt", "mcpHub.getMcpServersPath">>
    /\ pc' = "awaitServersPath"
    /\ UNCHANGED <<host, mcpMode, servers, args, mcpServersPath, doc, last, calls>>

\* await mcpHub.getMcpServersPath() resolves; getMcpSettingsFilePath is issued
ServersPathResolves ==
    /\ pc = "awaitServersPath"
    /\ mcpServersPath' = McpServersPathOf(host)
    /\ trace' = trace \o <<"mcpHub.getMcpServersPath:resolved", "mcpHub.getMcpSettingsFilePath">>
    /\ pc' = "awaitSettingsPath"
    /\ UNCHANGED <<host, mcpMode, servers, args, sections, doc, last, calls>>

\* a rejected lookup rejects getMcpCreationPrompt and with it SYSTEM_PROMPT
LookupRejects ==
    /\ pc \in {"awaitServersPath", "awaitSettingsPath"}
    /\ trace' = trace \o <<"mcpHub:rejected">>
    /\ pc' = "threw"
    /\ UNCHANGED <<host, mcpMode, servers, args, sections, mcpServersPath, doc, last, calls>>

\* the registry never settles the pending lookup
LookupHangs ==
    /\ pc \in {"awaitServersPath", "awaitSettingsPath"}
    /\ trace' = trace \o <<"mcpHub:unanswered">>
    /\ pc' = "hung"
    /\ UNCHANGED <<host, mcpMode, servers, args, sections, mcpServersPath, doc, last, calls>>

\* the mutated completion splices the automation section in unconditionally
SettingsPathResolvesAlwaysSplices ==
    /\ pc = "awaitSettingsPath"
    /\ LET all == sections \o
                  <<McpCreationText(mcpServersPath, McpSettingsFilePathOf(host), servers)>>
           final == splice(all, 3, getBrowserActionPrompt(args.browserSettings))
       IN  /\ sections' = final
           /\ doc' = join(final, SEP)
    /\ trace' = trace \o <<"mcpHub.getMcpSettingsFilePath:resolved", "mcpHub.getServers">>
                      \o <<"getBrowserActionPrompt", "join">>
    /\ pc' = "returned"
    /\ UNCHANGED <<host, mcpMode, servers, args, mcpServersPath, last, calls>>

\* await mcpHub.getMcpSettingsFilePath() resolves: the creation text is built
\* from the live server list, the array is completed, spliced and joined
SettingsPathResolves ==
    /\ pc = "awaitSettingsPath"
    /\ LET all == sections \o
                  <<McpCreationText(mcpServersPath, McpSettingsFilePathOf(host), servers)>>
           final == IF args.supportsComputerUse
                      THEN splice(all, 3, getBrowserActionPrompt(args.browserSettings))
                      ELSE all
       IN  /\ sections' = final
           /\ doc' = join(final, SEP)
    /\ trace' = trace \o <<"mcpHub.getMcpSettingsFilePath:resolved", "mcpHub.getServers">>
                      \o (IF args.supportsComputerUse THEN <<"getBrowserActionPrompt">> ELSE <<>>)
                      \o <<"join">>
    /\ pc' = "returned"
    /\ UNCHANGED <<host, mcpMode, servers, args, mcpServersPath, last, calls>>

(***************************************************************************)
(* The registry's own life                                                 *)
(***************************************************************************)
ServerStatusChanges ==
    /\ \E i \in 1..Len(servers), st \in StatusPool :
          /\ servers[i].status # st
          /\ servers' = [servers EXCEPT ![i].status = st]
    /\ UNCHANGED <<host, mcpMode, pc, args, sections, mcpServersPath, doc, trace, last, calls>>

(***************************************************************************)
(* Specifications                                                          *)
(***************************************************************************)
Next ==
    \/ Call
    \/ ResumeCapabilities
    \/ ServersPathResolves
    \/ SettingsPathResolves
    \/ LookupRejects
    \/ LookupHangs
    \/ ServerStatusChanges

Spec == Init /\ [][Next]_vars

\* the event loop runs a continuation whose promise has settled
FairSpec ==
    /\ Init /\ [][Next]_vars
    /\ WF_vars(ResumeCapabilities)
    /\ WF_vars(ServersPathResolves \/ SettingsPathResolves \/ LookupRejects \/ LookupHangs)

\* repeated invocations against a registry whose content does not change
NextSnapshot ==
    \/ CallAgain
    \/ ResumeCapabilities
    \/ ServersPathResolves
    \/ SettingsPathResolves
    \/ LookupRejects
    \/ LookupHangs

SpecSnapshot == Init /\ [][NextSnapshot]_vars

(***************************************************************************)
(* Reading an assembled document                                           *)
(***************************************************************************)
Range(f) == {f[i] : i \in DOMAIN f}

\* position of the first occurrence of a token, 0 when absent
IndexOf(text, tok) ==
    IF tok \in Range(text) THEN CHOOSE i \in DOMAIN text :
                                   /\ text[i] = tok
                                   /\ \A j \in 1..(i - 1) : text[j] # tok
    ELSE 0

\* the token every section opens with
SectionHeaders ==
    {"You are Cline", "TOOL USE", "## execute_command", "## browser_action",
     "## list_code_definition_names", "## list_files", "## read_file",
     "## replace_in_file", "## search_files", "## write_to_file",
     "## ask_followup_question", "## attempt_completion", "## plan_mode_response",
     "## use_mcp_tool", "## access_mcp_resource", "ACT MODE V.S. PLAN MODE",
     "CAPABILITIES", "EDITING FILES", "MCP SERVERS", "SYSTEM INFORMATION",
     "OBJECTIVE", "RULES", "## Creating an MCP Server"}

\* the section headers of a document, in document order
HeadersOf(text) == SelectSeq(text, LAMBDA t : t \in SectionHeaders)

HeaderOf(section) == IF section = <<>> THEN "" ELSE section[1]

RECURSIVE SumLen(_)
SumLen(arr) == IF arr = <<>> THEN 0 ELSE Len(arr[1]) + SumLen(Tail(arr))

NonEmptyCount(arr) == Cardinality({i \in DOMAIN arr : arr[i] # <<>>})

\* the array without its automation section
WithoutAutomation(arr) == SelectSeq(arr, LAMBDA sec : HeaderOf(sec) # "## browser_action")

ConnectedNames(srvs) == {srvs[k].name : k \in {j \in DOMAIN srvs : srvs[j].status = "connected"}}
OtherNames(srvs) == {srvs[k].name : k \in {j \in DOMAIN srvs : srvs[j].status # "connected"}}
ConnectedTools(srvs) ==
    UNION { {<<srvs[k].name, srvs[k].tools[t].name, srvs[k].tools[t].description>> :
                t \in DOMAIN srvs[k].tools} :
            k \in {j \in DOMAIN srvs : srvs[j].status = "connected" /\ srvs[j].hasTools} }

\* provider names a registry-status section lists
NamesListed(sec) == {sec[i + 1] : i \in {j \in 1..(Len(sec) - 1) : sec[j] = "## "}}

\* the provider a position of a registry-status section belongs to
OwnerAt(sec, i) ==
    LET starts == {j \in 1..i : sec[j] = "## "}
    IN  IF starts = {} THEN "" ELSE sec[(CHOOSE j \in starts : \A k \in starts : k <= j) + 1]

\* <<provider, tool, description>> lines a registry-status section lists
ToolsListed(sec) ==
    {<<OwnerAt(sec, i), sec[i + 1], sec[i + 3]>> : i \in {j \in 1..(Len(sec) - 3) : sec[j] = "- "}}

\* provider names the creation-guidance section names between its markers
NamesNamed(sec) ==
    LET from == IndexOf(sec, "e.g., ")
        to == IndexOf(sec, "This is possible if you can locate the repository")
    IN  {sec[i] : i \in (from + 1)..(to - 1)} \ {", ", NoneRunning}

(***************************************************************************)
(* Properties                                                              *)
(***************************************************************************)

\* C1: in every assembled document the browser_action section, when present,
\* is the section right after the execute_command section, and the MCP SERVERS
\* section, when present, comes after the editing section and before the
\* rules section, whatever the flag, the registry mode and the registry content.
C1_Ordering ==
    pc = "returned" =>
        LET h == HeadersOf(doc)
        IN  /\ IndexOf(h, "## browser_action") # 0 =>
                  /\ IndexOf(h, "## execute_command") # 0
                  /\ IndexOf(h, "## browser_action") = IndexOf(h, "## execute_command") + 1
            /\ IndexOf(h, "MCP SERVERS") # 0 =>
                  /\ IndexOf(h, "EDITING FILES") # 0
                  /\ IndexOf(h, "EDITING FILES") < IndexOf(h, "MCP SERVERS")
                  /\ IndexOf(h, "MCP SERVERS") < IndexOf(h, "RULES")

C1_Witness ==
    /\ pc = "returned"
    /\ args.supportsComputerUse
    /\ mcpMode = "enabled"
    /\ "## browser_action" \in Range(doc)
    /\ "MCP SERVERS" \in Range(doc)

DiffersOnlyInFlag(a, b) ==
    /\ a.cwd = b.cwd
    /\ a.browserSettings = b.browserSettings
    /\ a.supportsComputerUse # b.supportsComputerUse

HasAutomation(arr) == \E i \in DOMAIN arr : HeaderOf(arr[i]) = "## browser_action"

\* C2 as stated: the automation section is present exactly when the flag is
\* true, and of two assemblies that differ only in the flag every section
\* other than the automation section has the same text.
C2_Original ==
    /\ pc = "returned" => (HasAutomation(sections) <=> args.supportsComputerUse)
    /\ (pc = "returned" /\ last.valid /\ DiffersOnlyInFlag(last.args, args)) =>
          WithoutAutomation(sections) = WithoutAutomation(last.sections)

\* C2 as amended: the automation section is present exactly when the flag is
\* true, and of two assemblies that differ only in the flag every section
\* other than the automation section, the rules section and the capabilities
\* section (the two providers that are passed the flag) has the same text.
C2_FlagGatesAutomation ==
    /\ pc = "returned" => (HasAutomation(sections) <=> args.supportsComputerUse)
    /\ (pc = "returned" /\ last.valid /\ DiffersOnlyInFlag(last.args, args)) =>
          LET a == WithoutAutomation(sections)
              b == WithoutAutomation(last.sections)
          IN  /\ Len(a) = Len(b)
              /\ \A i \in DOMAIN a :
                    HeaderOf(a[i]) \notin {"RULES", "CAPABILITIES"} => a[i] = b[i]

C2_Witness ==
    /\ pc = "returned"
    /\ last.valid
    /\ DiffersOnlyInFlag(last.args, args)
    /\ args.supportsComputerUse
    /\ HasAutomation(sections)
    /\ ~HasAutomation(last.sections)

\* C3 as stated: a failed registry operation is never propagated to the
\* caller, the invocation does not end in a rejection because of it.
C3_Original ==
    "mcpHub:rejected" \in Range(trace) => pc # "threw"

\* C4 as stated: the assembled document holds one separator less than there
\* are non-empty sections, and no two separators are adjacent.
C4_Original ==
    pc = "returned" =>
        /\ Len(doc) - SumLen(sections) = NonEmptyCount(sections) - 1
        /\ \A i \in 1..(Len(doc) - 1) : ~(doc[i] = SEP /\ doc[i + 1] = SEP)

\* C5 as stated: no path appears in the assembled document with a backslash.
C5_Original ==
    pc = "returned" => "\\" \notin Range(doc)

\* C6 as stated: every invocation that is suspended on the registry
\* eventually returns or fails, even when the registry never answers.
C6_Original ==
    (pc \in Suspended \cup {"hung"}) ~> (pc \in Settled)

\* what the registry-status section must show for a registry content
StatusSectionShows(sec, srvs) ==
    /\ NamesListed(sec) = ConnectedNames(srvs)
    /\ ToolsListed(sec) = ConnectedTools(srvs)
    /\ OtherNames(srvs) \cap Range(sec) = {}
    /\ (NoServersConnected \in Range(sec)) <=> (ConnectedNames(srvs) = {})

\* what the creation-guidance section must show for a registry content
CreationSectionShows(sec, srvs) ==
    /\ NamesNamed(sec) = ConnectedNames(srvs)
    /\ OtherNames(srvs) \cap Range(sec) = {}
    /\ (NoneRunning \in Range(sec)) <=> (ConnectedNames(srvs) = {})

\* C7: the step that renders the registry-status section (registry mode not
\* off) lists exactly the providers, with their tools, that are connected in
\* the registry at that step, and the step that renders the creation-guidance
\* section names exactly the providers connected at that step; an entry that
\* is connecting or failed appears in neither, and with nothing connected the
\* fixed placeholder is shown.
C7_OnlyConnected ==
    [][ /\ (pc = "awaitCapabilities" /\ pc' = "awaitServersPath" /\ mcpMode # "off") =>
              StatusSectionShows(sections'[18], servers)
        /\ (pc = "awaitSettingsPath" /\ pc' = "returned") =>
              \E i \in DOMAIN sections' :
                 /\ HeaderOf(sections'[i]) = "## Creating an MCP Server"
                 /\ CreationSectionShows(sections'[i], servers) ]_vars

C7_Witness ==
    /\ pc = "returned"
    /\ mcpMode = "enabled"
    /\ Len(servers) = 2
    /\ servers[1].status = "connected"
    /\ servers[2].status = "connecting"
    /\ "alpha" \in NamesListed(sections[Len(sections) - 4])
    /\ "beta" \notin Range(doc)
    /\ "fetch" \in Range(doc)

\* C8: with the host, the registry content and the registry mode unchanged,
\* an invocation made with the arguments of the previous invocation returns
\* the document the previous invocation returned.
C8_Deterministic ==
    (pc = "returned" /\ last.valid /\ last.args = args) => doc = last.doc

C8_Witness ==
    /\ pc = "returned"
    /\ last.valid
    /\ last.args = args
    /\ calls = 2
    /\ doc = last.doc
    /\ Len(doc) > 0

\* C9 as stated: an invocation without a working directory fails before any
\* section provider has been invoked and before any registry operation.
C9_Original ==
    (pc # "idle" /\ args.cwd = Undefined) => (pc = "threw" /\ trace = <<>>)

\* C10 as stated: the server list is read only after both path lookups of
\* the invocation have completed.
C10_Original ==
    \A i \in DOMAIN trace :
        trace[i] = "mcpHub.getServers" =>
            /\ \E j \in 1..(i - 1) : trace[j] = "mcpHub.getMcpServersPath:resolved"
            /\ \E j \in 1..(i - 1) : trace[j] = "mcpHub.getMcpSettingsFilePath:resolved"

\* C11 as stated: with the registry mode enabled, the providers listed in the
\* registry-status section of an assembled document are exactly the providers
\* named in its creation-guidance section, also when statuses change while the
\* invocation is suspended on its path lookups.
C11_Original ==
    (pc = "returned" /\ mcpMode = "enabled") =>
        NamesListed(sections[Len(sections) - 4]) = NamesNamed(sections[Len(sections)])

====
